---- MODULE Spec2Model ----
(***************************************************************************)
(* A model of yt_dl (src/src/yt_dl/downloader.py): the YouTubeDownloader   *)
(* class and the command-line main.                                        *)
(*                                                                         *)
(* Strings are sequences of one-character strings, so that replace, strip, *)
(* endswith and concatenation are computed and not assumed.  The two       *)
(* external libraries (the stream provider and the transcoder) are the     *)
(* environment: what they return or raise is an input of the run.          *)
(***************************************************************************)
EXTENDS Integers, Sequences, FiniteSets, TLC

VARIABLES
    pc,            \* position of the single thread of control
    args,          \* parsed command line: [type, output, resolution]
    yt,            \* what the provider reports for the url: [title, streams]
    fault,         \* the external call that fails in this run ("none": no one)
    dirState,      \* the output directory: "absent", "dir" or "file"
    fs,            \* regular files on disk: a set of <<path, data>>
    wlog,          \* every write into the output directory, with the directory's state then
    ctor,          \* "pending", "ok" or "raised": YouTubeDownloader.__init__
    filename,      \* local of download_mp4 / download_mp3
    video_stream,  \* local of download_mp4
    audio_stream,  \* local of download_mp3
    file_path,     \* local of download_mp4: what the transfer returned
    temp_path,     \* local of download_mp3
    cause,         \* the first exception raised under a download function: the underlying failure
    errors,        \* the exceptions that reached main's try block, in order
    ret,           \* the path a download function returned
    steps,         \* how many times each external step was started
    calls,         \* how many times each download entry point was called
    stdout,        \* lines printed by main
    exitCode,      \* -1 while running, then the process's exit status
    sx, sy, sz,    \* _sanitize_filename: input, result, result of the result
    infoIn,        \* get_video_info: [fault, description]
    infoOut        \* get_video_info: [raised, value]

vars == << pc, args, yt, fault, dirState, fs, wlog, ctor, filename, video_stream,
           audio_stream, file_path, temp_path, cause, errors, ret, steps, calls,
           stdout, exitCode, sx, sy, sz, infoIn, infoOut >>

cliVars == << args, yt, fault, dirState, fs, wlog, ctor, filename, video_stream,
              audio_stream, file_path, temp_path, cause, errors, ret, steps, calls,
              stdout, exitCode >>

pureVars == << sx, sy, sz, infoIn, infoOut >>

-----------------------------------------------------------------------------
(* Bounds of the model.                                                     *)

MaxStreams == 3
MaxLen == 3
MaxDescLen == 203

-----------------------------------------------------------------------------
(* Strings.                                                                 *)

None == << >>

RECURSIVE SeqsUpTo(_, _)
SeqsUpTo(S, n) ==
    IF n = 0 THEN { << >> }
    ELSE LET shorter == SeqsUpTo(S, n - 1)
         IN  shorter \cup { Append(s, x) : s \in { t \in shorter : Len(t) = n - 1 }, x \in S }

endswith(s, suffix) ==
    /\ Len(s) >= Len(suffix)
    /\ SubSeq(s, Len(s) - Len(suffix) + 1, Len(s)) = suffix

MP4_SUFFIX == << ".", "m", "p", "4" >>
MP3_SUFFIX == << ".", "m", "p", "3" >>
WEBM_SUFFIX == << ".", "w", "e", "b", "m" >>

\* os.path.join(a, b) for a relative b
path_join(a, b) == a \o << "/" >> \o b

-----------------------------------------------------------------------------
(* _sanitize_filename                                                       *)

invalid_chars == << "<", ">", ":", "\"", "/", "\\", "|", "?", "*" >>

Whitespace == { " ", "\t", "\n" }

\* str.replace(char, new) for a one-character char
replace(s, char, new) == [ i \in 1..Len(s) |-> IF s[i] = char THEN new ELSE s[i] ]

RECURSIVE lstrip(_)
lstrip(s) == IF s # << >> /\ Head(s) \in Whitespace THEN lstrip(Tail(s)) ELSE s

RECURSIVE rstrip(_)
rstrip(s) ==
    IF s # << >> /\ s[Len(s)] \in Whitespace THEN rstrip(SubSeq(s, 1, Len(s) - 1)) ELSE s

strip_left_only(s) == lstrip(s)

strip(s) == rstrip(lstrip(s))

\* the for loop over invalid_chars, from its k-th character on
RECURSIVE replace_invalid(_, _)
replace_invalid(s, k) ==
    IF k > Len(invalid_chars) THEN s
    ELSE replace_invalid(replace(s, invalid_chars[k], "_"), k + 1)

_sanitize_filename(name) == strip(replace_invalid(name, 1))

-----------------------------------------------------------------------------
(* Stream descriptors and the provider's StreamQuery.                       *)
(* resolution and abr are kept as the integer the provider's order_by sorts *)
(* by ("720p" -> 720, "128kbps" -> 128); 0 stands for a missing attribute.  *)

NoStream == [ itag |-> 0, is_progressive |-> FALSE, type |-> "none", subtype |-> "none",
              resolution |-> 0, abr |-> 0 ]

Descriptor(prog, ty, sub, res, abr) ==
    [ itag |-> 0, is_progressive |-> prog, type |-> ty, subtype |-> sub,
      resolution |-> res, abr |-> abr ]

\* the provider numbers the streams it reports
Tagged(list) == [ i \in 1..Len(list) |-> [ list[i] EXCEPT !.itag = i ] ]

includes_video_track(s) == s.is_progressive \/ s.type = "video"
includes_audio_track(s) == s.is_progressive \/ s.type = "audio"
is_adaptive(s) == ~ s.is_progressive

attr(s, name) == IF name = "resolution" THEN s.resolution ELSE s.abr

\* sorted(): stable, ascending
RECURSIVE insert_sorted(_, _, _)
insert_sorted(q, s, name) ==
    IF q = << >> THEN << s >>
    ELSE IF attr(q[Len(q)], name) <= attr(s, name) THEN Append(q, s)
    ELSE Append(insert_sorted(SubSeq(q, 1, Len(q) - 1), s, name), q[Len(q)])

RECURSIVE sorted_by(_, _)
sorted_by(q, name) ==
    IF q = << >> THEN << >>
    ELSE insert_sorted(sorted_by(SubSeq(q, 1, Len(q) - 1), name), q[Len(q)], name)

has_attr(s, name) == attr(s, name) # 0

\* StreamQuery.order_by: streams without the attribute are dropped
order_by(q, name) ==
    LET keep(s) == has_attr(s, name) IN sorted_by(SelectSeq(q, keep), name)

desc(q) == [ i \in 1..Len(q) |-> q[Len(q) + 1 - i] ]

first(q) == IF q = << >> THEN NoStream ELSE q[1]

last(q) == IF q = << >> THEN NoStream ELSE q[Len(q)]

\* StreamQuery.get_highest_resolution
get_highest_resolution(q) ==
    LET prog(s) == s.is_progressive IN last(order_by(SelectSeq(q, prog), "resolution"))

-----------------------------------------------------------------------------
(* Stream selection.                                                        *)

\* _get_video_stream with the two queries swapped
_get_video_stream_adaptive_first(q, resolution, raises) ==
    LET prog(s) == s.is_progressive /\ s.subtype = "mp4" /\ s.resolution = resolution
        adap(s) == /\ is_adaptive(s)
                   /\ includes_video_track(s) /\ ~ includes_audio_track(s)
                   /\ s.subtype = "mp4" /\ s.resolution = resolution
        streams == desc(order_by(SelectSeq(q, prog), "resolution"))
        video_streams == desc(order_by(SelectSeq(q, adap), "resolution"))
    IN  IF raises THEN NoStream
        ELSE IF video_streams # << >> THEN first(video_streams)
        ELSE IF streams # << >> THEN first(streams) ELSE NoStream

\* raises: the provider fails to enumerate the streams; the except branch returns None
_get_video_stream(q, resolution, raises) ==
    LET prog(s) == s.is_progressive /\ s.subtype = "mp4" /\ s.resolution = resolution
        adap(s) == /\ is_adaptive(s)
                   /\ includes_video_track(s) /\ ~ includes_audio_track(s)
                   /\ s.subtype = "mp4" /\ s.resolution = resolution
        streams == desc(order_by(SelectSeq(q, prog), "resolution"))
        video_streams == desc(order_by(SelectSeq(q, adap), "resolution"))
    IN  IF raises THEN NoStream
        ELSE IF streams # << >> THEN first(streams)
        ELSE IF video_streams # << >> THEN first(video_streams) ELSE NoStream

\* download_mp4's fallback when _get_video_stream found nothing
fallback_video_stream(q, found) ==
    LET prog(s) == s.is_progressive /\ s.subtype = "mp4"
        highest == first(desc(order_by(SelectSeq(q, prog), "resolution")))
    IN  IF found # NoStream THEN found
        ELSE IF highest # NoStream THEN highest
        ELSE get_highest_resolution(q)

\* _get_audio_stream without .desc()
_get_audio_stream_ascending(q, raises) ==
    LET audio(s) == /\ includes_audio_track(s) /\ ~ includes_video_track(s)
                    /\ s.subtype = "mp4"
        audio_streams == order_by(SelectSeq(q, audio), "abr")
    IN  IF raises THEN NoStream
        ELSE IF audio_streams # << >> THEN first(audio_streams) ELSE NoStream

_get_audio_stream(q, raises) ==
    LET audio(s) == /\ includes_audio_track(s) /\ ~ includes_video_track(s)
                    /\ s.subtype = "mp4"
        audio_streams == desc(order_by(SelectSeq(q, audio), "abr"))
    IN  IF raises THEN NoStream
        ELSE IF audio_streams # << >> THEN first(audio_streams) ELSE NoStream

-----------------------------------------------------------------------------
(* The filesystem.                                                          *)

OutputDir == << "d" >>

TempFile == << "/", "t", "m", "p", "/", "x", ".", "m", "p", "4" >>

exists(files, p) == \E e \in files : e[1] = p

read(files, p) == (CHOOSE e \in files : e[1] = p)[2]

write(files, p, data) == { e \in files : e[1] # p } \cup { << p, data >> }

unlink(files, p) == { e \in files : e[1] # p }

os_rename_as_copy(files, src, dst) == write(files, dst, read(files, src))

\* os.rename
os_rename(files, src, dst) == write(unlink(files, src), dst, read(files, src))

\* the "ensure .mp4 extension" test and new_path
normalized_path(p) == IF endswith(p, MP4_SUFFIX) THEN p ELSE p \o MP4_SUFFIX

\* where the provider's download puts the file: the name as given, or the
\* name with the stream's container appended
transfer_paths(dir, name, stream) ==
    { path_join(dir, name),
      path_join(dir, name \o (IF stream.subtype = "mp4" THEN MP4_SUFFIX ELSE WEBM_SUFFIX)) }

_ensure_output_directory_skipped(d, f) == [ raised |-> FALSE, dir |-> d ]

\* os.makedirs(exist_ok=True): fails on a path that is a regular file, or
\* when the directory cannot be made
_ensure_output_directory(d, f) ==
    IF d = "file" \/ f = "makedirs"
    THEN [ raised |-> TRUE, dir |-> d ]
    ELSE [ raised |-> FALSE, dir |-> "dir" ]

-----------------------------------------------------------------------------
(* Errors.                                                                  *)

\* lines 143-148: both except clauses build the same message
video_error(e) == << "Failed to download video: " >> \o e

audio_error(e) == << "Failed to download audio: " >> \o e

\* The external call that fails in a run.  "yt": YouTube(url) raises.  "fetch":
\* the provider cannot resolve the url, so every read of yt.title or yt.streams
\* in the call raises (the provider fetches on first use); what the provider
\* reports for a url does not change during a call.
Faults == { "none", "makedirs", "yt", "fetch", "transfer", "rename", "tempfile",
            "open", "write" }

ExcMakedirs == << "cannot create directory" >>
ExcYouTube == << "regex_search: could not find match" >>
ExcFetch == << "video is unavailable" >>
ExcNoneType == << "'NoneType' object has no attribute 'resolution'" >>
ExcTransfer == << "connection reset" >>
ExcRename == << "cannot rename" >>
ExcTempfile == << "no usable temporary directory" >>
ExcNoAudio == << "No suitable audio stream found" >>
ExcOpen == << "failed to read the duration of file" >>
ExcWrite == << "error writing the audio file" >>

-----------------------------------------------------------------------------
(* main and YouTubeDownloader.__init__                                      *)

entry_point_swapped(type) == IF type = "mp4" THEN "mp3" ELSE "mp4"

\* the if/else of main on args.type
entry_point(type) == IF type = "mp4" THEN "mp4" ELSE "mp3"

Main_Construct ==
    /\ pc = "main_construct"
    /\ LET made == _ensure_output_directory(dirState, fault)
       IN  /\ dirState' = made.dir
           /\ ctor' = IF made.raised THEN "raised" ELSE "ok"
           /\ errors' = IF made.raised THEN Append(errors, ExcMakedirs) ELSE errors
           /\ pc' = IF made.raised THEN "main_except" ELSE "main_dispatch"
    /\ UNCHANGED << args, yt, fault, fs, wlog, filename, video_stream, audio_stream,
                    file_path, temp_path, cause, ret, steps, calls, stdout, exitCode >>
    /\ UNCHANGED pureVars

Main_Dispatch ==
    /\ pc = "main_dispatch"
    /\ LET target == entry_point(args.type)
       IN  /\ calls' = [ calls EXCEPT ![target] = @ + 1 ]
           /\ pc' = IF target = "mp4" THEN "mp4_begin" ELSE "mp3_begin"
    /\ UNCHANGED << args, yt, fault, dirState, fs, wlog, ctor, filename, video_stream,
                    audio_stream, file_path, temp_path, cause, errors, ret, steps,
                    stdout, exitCode >>
    /\ UNCHANGED pureVars

Main_Print ==
    /\ pc = "main_print"
    /\ stdout' = Append(stdout, << "Download completed: " >> \o ret)
    /\ exitCode' = 0
    /\ pc' = "exited"
    /\ UNCHANGED << args, yt, fault, dirState, fs, wlog, ctor, filename, video_stream,
                    audio_stream, file_path, temp_path, cause, errors, ret, steps, calls >>
    /\ UNCHANGED pureVars

Main_Except ==
    /\ pc = "main_except"
    /\ stdout' = Append(stdout, << "Error: " >> \o errors[Len(errors)])
    /\ exitCode' = 1
    /\ pc' = "exited"
    /\ UNCHANGED << args, yt, fault, dirState, fs, wlog, ctor, filename, video_stream,
                    audio_stream, file_path, temp_path, cause, errors, ret, steps, calls >>
    /\ UNCHANGED pureVars

-----------------------------------------------------------------------------
(* download_mp4                                                             *)

\* the except clauses of download_mp4: e leaves the try block, after the failure
\* `underlying' (the two differ when a helper swallowed the failure)
Mp4_Raise(underlying, e) ==
    /\ cause' = underlying
    /\ errors' = Append(errors, video_error(e))
    /\ pc' = "main_except"

Mp4_Begin ==
    /\ pc = "mp4_begin"
    /\ steps' = [ steps EXCEPT !.metadata = @ + 1 ]
    /\ IF fault = "yt"
       THEN Mp4_Raise(ExcYouTube, ExcYouTube) /\ UNCHANGED filename
       ELSE IF args.output = None /\ fault = "fetch"
       THEN Mp4_Raise(ExcFetch, ExcFetch) /\ UNCHANGED filename
       ELSE /\ filename' = IF args.output = None THEN _sanitize_filename(yt.title)
                           ELSE args.output
            /\ pc' = "mp4_select"
            /\ UNCHANGED << cause, errors >>
    /\ UNCHANGED << args, yt, fault, dirState, fs, wlog, ctor, video_stream, audio_stream,
                    file_path, temp_path, ret, calls, stdout, exitCode >>
    /\ UNCHANGED pureVars

Mp4_Select ==
    /\ pc = "mp4_select"
    /\ steps' = [ steps EXCEPT !.select = @ + 1 ]
    /\ LET found == _get_video_stream(yt.streams, args.resolution, fault = "fetch")
           chosen == fallback_video_stream(yt.streams, found)
       IN  IF fault = "fetch"
           THEN Mp4_Raise(ExcFetch, ExcFetch) /\ video_stream' = found
           ELSE IF chosen = NoStream
           THEN Mp4_Raise(ExcNoneType, ExcNoneType) /\ video_stream' = chosen
           ELSE /\ video_stream' = chosen
                /\ pc' = "mp4_transfer"
                /\ UNCHANGED << cause, errors >>
    /\ UNCHANGED << args, yt, fault, dirState, fs, wlog, ctor, filename, audio_stream,
                    file_path, temp_path, ret, calls, stdout, exitCode >>
    /\ UNCHANGED pureVars

Mp4_Transfer ==
    /\ pc = "mp4_transfer"
    /\ steps' = [ steps EXCEPT !.transfer = @ + 1 ]
    /\ wlog' = Append(wlog, [ op |-> "transfer", dir |-> dirState, ctor |-> ctor ])
    /\ \E p \in transfer_paths(OutputDir, filename, video_stream) :
          IF fault = "transfer"
          THEN /\ \E partial \in BOOLEAN :
                     fs' = IF partial THEN write(fs, p, << "partial", video_stream.itag >>)
                           ELSE fs
               /\ Mp4_Raise(ExcTransfer, ExcTransfer)
               /\ UNCHANGED file_path
          ELSE /\ fs' = write(fs, p, << "bytes", video_stream.itag >>)
               /\ file_path' = p
               /\ pc' = "mp4_normalize"
               /\ UNCHANGED << cause, errors >>
    /\ UNCHANGED << args, yt, fault, dirState, ctor, filename, video_stream, audio_stream,
                    temp_path, ret, calls, stdout, exitCode >>
    /\ UNCHANGED pureVars

Mp4_Normalize ==
    /\ pc = "mp4_normalize"
    /\ LET new_path == normalized_path(file_path)
       IN  IF new_path = file_path
           THEN /\ ret' = file_path
                /\ pc' = "main_print"
                /\ UNCHANGED << fs, cause, errors, steps >>
           ELSE /\ steps' = [ steps EXCEPT !.rename = @ + 1 ]
                /\ IF fault = "rename"
                   THEN Mp4_Raise(ExcRename, ExcRename) /\ UNCHANGED << fs, ret >>
                   ELSE /\ fs' = os_rename(fs, file_path, new_path)
                        /\ ret' = new_path
                        /\ pc' = "main_print"
                        /\ UNCHANGED << cause, errors >>
    /\ UNCHANGED << args, yt, fault, dirState, wlog, ctor, filename, video_stream,
                    audio_stream, file_path, temp_path, calls, stdout, exitCode >>
    /\ UNCHANGED pureVars

-----------------------------------------------------------------------------
(* download_mp3                                                             *)

\* the except clauses of download_mp3: e leaves the try block, after the failure
\* `underlying' (the two differ when a helper swallowed the failure)
Mp3_Raise(underlying, e) ==
    /\ cause' = underlying
    /\ errors' = Append(errors, audio_error(e))
    /\ pc' = "main_except"

Mp3_Begin ==
    /\ pc = "mp3_begin"
    /\ steps' = [ steps EXCEPT !.metadata = @ + 1 ]
    /\ IF fault = "yt"
       THEN Mp3_Raise(ExcYouTube, ExcYouTube) /\ UNCHANGED filename
       ELSE IF args.output = None /\ fault = "fetch"
       THEN Mp3_Raise(ExcFetch, ExcFetch) /\ UNCHANGED filename
       ELSE /\ filename' = IF args.output = None THEN _sanitize_filename(yt.title)
                           ELSE args.output
            /\ pc' = "mp3_select"
            /\ UNCHANGED << cause, errors >>
    /\ UNCHANGED << args, yt, fault, dirState, fs, wlog, ctor, video_stream, audio_stream,
                    file_path, temp_path, ret, calls, stdout, exitCode >>
    /\ UNCHANGED pureVars

Mp3_Select ==
    /\ pc = "mp3_select"
    /\ steps' = [ steps EXCEPT !.select = @ + 1 ]
    /\ LET found == _get_audio_stream(yt.streams, fault = "fetch")
       IN  /\ audio_stream' = found
           /\ IF found = NoStream
              THEN Mp3_Raise(IF fault = "fetch" THEN ExcFetch ELSE ExcNoAudio, ExcNoAudio)
              ELSE pc' = "mp3_tempfile" /\ UNCHANGED << cause, errors >>
    /\ UNCHANGED << args, yt, fault, dirState, fs, wlog, ctor, filename, video_stream,
                    file_path, temp_path, ret, calls, stdout, exitCode >>
    /\ UNCHANGED pureVars

\* tempfile.NamedTemporaryFile(delete=False): an empty file that outlives the with block
Mp3_Tempfile ==
    /\ pc = "mp3_tempfile"
    /\ IF fault = "tempfile"
       THEN Mp3_Raise(ExcTempfile, ExcTempfile) /\ UNCHANGED << fs, temp_path >>
       ELSE /\ temp_path' = TempFile
            /\ fs' = write(fs, TempFile, << "empty", 0 >>)
            /\ pc' = "mp3_transfer"
            /\ UNCHANGED << cause, errors >>
    /\ UNCHANGED << args, yt, fault, dirState, wlog, ctor, filename, video_stream,
                    audio_stream, file_path, ret, steps, calls, stdout, exitCode >>
    /\ UNCHANGED pureVars

Mp3_Transfer ==
    /\ pc = "mp3_transfer"
    /\ steps' = [ steps EXCEPT !.transfer = @ + 1 ]
    /\ IF fault = "transfer"
       THEN /\ \E partial \in BOOLEAN :
                  fs' = IF partial THEN write(fs, temp_path, << "partial", audio_stream.itag >>)
                        ELSE fs
            /\ Mp3_Raise(ExcTransfer, ExcTransfer)
       ELSE /\ fs' = write(fs, temp_path, << "bytes", audio_stream.itag >>)
            /\ pc' = "mp3_convert"
            /\ UNCHANGED << cause, errors >>
    /\ UNCHANGED << args, yt, fault, dirState, wlog, ctor, filename, video_stream,
                    audio_stream, file_path, temp_path, ret, calls, stdout, exitCode >>
    /\ UNCHANGED pureVars

\* AudioFileClip, write_audiofile, close, os.unlink, return
Mp3_Convert ==
    /\ pc = "mp3_convert"
    /\ steps' = [ steps EXCEPT !.transcode = @ + 1 ]
    /\ LET output_path == path_join(OutputDir, filename \o MP3_SUFFIX)
           wrote == Append(wlog, [ op |-> "mp3", dir |-> dirState, ctor |-> ctor ])
       IN  IF fault = "open"
           THEN Mp3_Raise(ExcOpen, ExcOpen) /\ UNCHANGED << fs, wlog, ret >>
           ELSE IF fault = "write"
           THEN /\ \E left \in { "nothing", "partial", "mp3" } :
                      fs' = IF left = "nothing" THEN fs
                            ELSE write(fs, output_path, << left, audio_stream.itag >>)
                /\ wlog' = wrote
                /\ Mp3_Raise(ExcWrite, ExcWrite)
                /\ UNCHANGED ret
           ELSE /\ fs' = unlink(write(fs, output_path, << "mp3", audio_stream.itag >>),
                                temp_path)
                /\ wlog' = wrote
                /\ ret' = output_path
                /\ pc' = "main_print"
                /\ UNCHANGED << cause, errors >>
    /\ UNCHANGED << args, yt, fault, dirState, ctor, filename, video_stream, audio_stream,
                    file_path, temp_path, calls, stdout, exitCode >>
    /\ UNCHANGED pureVars

-----------------------------------------------------------------------------
(* The library called directly: _sanitize_filename and get_video_info.      *)

Sanitize_Call ==
    /\ pc = "sanitize"
    /\ sy' = _sanitize_filename(sx)
    /\ pc' = "sanitize_again"
    /\ UNCHANGED << sx, sz, infoIn, infoOut >>
    /\ UNCHANGED cliVars

Sanitize_Again ==
    /\ pc = "sanitize_again"
    /\ sz' = _sanitize_filename(sy)
    /\ pc' = "sanitized"
    /\ UNCHANGED << sx, sy, infoIn, infoOut >>
    /\ UNCHANGED cliVars

DescLimit == 200

Ellipsis == << 46, 46, 46 >>

NoDescription == << -1 >>

EmptyRecord == [ k \in {} |-> 0 ]

InfoFields == { "title", "author", "length", "views", "publish_date", "description" }

truncate_inclusive(d) ==
    IF d # NoDescription /\ d # << >> /\ Len(d) >= DescLimit
    THEN SubSeq(d, 1, DescLimit) \o Ellipsis ELSE d

\* line 238: the conditional expression on yt.description
truncate(d) ==
    IF d # NoDescription /\ d # << >> /\ Len(d) > DescLimit
    THEN SubSeq(d, 1, DescLimit) \o Ellipsis ELSE d

\* the try block of get_video_info: YouTube(url), then the fields in order
info_body(in) ==
    IF in.fault # "none"
    THEN [ raised |-> TRUE, value |-> EmptyRecord ]
    ELSE [ raised |-> FALSE,
           value |-> [ k \in InfoFields |->
                         IF k = "description" THEN truncate(in.description)
                         ELSE in.fields[k] ] ]

get_video_info(in) ==
    LET body == info_body(in)
    IN  IF body.raised THEN [ raised |-> FALSE, value |-> EmptyRecord ] ELSE body

Info_Call ==
    /\ pc = "info"
    /\ infoOut' = get_video_info(infoIn)
    /\ pc' = IF infoOut'.raised THEN "info_raised" ELSE "info_returned"
    /\ UNCHANGED << sx, sy, sz, infoIn >>
    /\ UNCHANGED cliVars

\* the caller goes on with the record it got
Info_Continue ==
    /\ pc = "info_returned"
    /\ pc' = "info_caller_done"
    /\ UNCHANGED pureVars
    /\ UNCHANGED cliVars

-----------------------------------------------------------------------------
(* Inputs and specifications.                                               *)

Resolutions == { 360, 720, 1080 }

VideoUniverse ==
    { Descriptor(TRUE, "video", sub, res, 96) :
          sub \in { "mp4", "webm" }, res \in { 0, 360, 720, 1080 } }
    \cup { Descriptor(FALSE, "video", sub, res, 0) :
              sub \in { "mp4", "webm" }, res \in { 360, 720, 1080 } }
    \cup { Descriptor(FALSE, "audio", "mp4", 0, 128) }

AudioUniverse ==
    { Descriptor(FALSE, "audio", sub, 0, abr) : sub \in { "mp4", "webm" }, abr \in { 0, 96, 128, 160 } }
    \cup { Descriptor(TRUE, "video", "mp4", 720, 192), Descriptor(FALSE, "video", "mp4", 720, 0) }

SmallUniverse ==
    { Descriptor(TRUE, "video", "mp4", 720, 96), Descriptor(TRUE, "video", "webm", 360, 96),
      Descriptor(FALSE, "audio", "mp4", 0, 128) }

Titles == { << " ", "a", "/", "b" >>, << "s", "?" >> }

Outputs == { None, << "s" >> }

Alphabet == { invalid_chars[k] : k \in 1..Len(invalid_chars) } \cup { " ", "\t", "a", "_" }

InfoFaults == { "none", "yt" } \cup InfoFields

Descriptions ==
    { NoDescription }
    \cup { [ i \in 1..n |-> 1000 + i ] : n \in 0..MaxDescLen }
    \cup { [ i \in 1..n |-> 46 ] : n \in 1..MaxDescLen }

SomeFields ==
    [ k \in InfoFields |->
        CASE k = "title" -> << "t" >>
          [] k = "author" -> << "a" >>
          [] k = "length" -> 212
          [] k = "views" -> 1000
          [] k = "publish_date" -> << "2020", "01", "01" >>
          [] OTHER -> << >> ]

Streams(universe) == { Tagged(list) : list \in SeqsUpTo(universe, MaxStreams) }

\* everything but the inputs, as the process starts
Started ==
    /\ fs = {}
    /\ wlog = << >>
    /\ ctor = "pending"
    /\ filename = None
    /\ video_stream = NoStream
    /\ audio_stream = NoStream
    /\ file_path = None
    /\ temp_path = None
    /\ cause = None
    /\ errors = << >>
    /\ ret = None
    /\ steps = [ metadata |-> 0, select |-> 0, transfer |-> 0, rename |-> 0, transcode |-> 0 ]
    /\ calls = [ mp4 |-> 0, mp3 |-> 0 ]
    /\ stdout = << >>
    /\ exitCode = -1

NoPureCall ==
    /\ sx = << >> /\ sy = << >> /\ sz = << >>
    /\ infoIn = [ fault |-> "none", description |-> << >>, fields |-> SomeFields ]
    /\ infoOut = [ raised |-> FALSE, value |-> EmptyRecord ]

NoCliRun ==
    /\ args = [ type |-> "mp4", output |-> None, resolution |-> 720 ]
    /\ yt = [ title |-> << >>, streams |-> << >> ]
    /\ fault = "none"
    /\ dirState = "dir"
    /\ Started

\* a run of main: any command line, any one failing external call
Init ==
    /\ pc = "main_construct"
    /\ args \in [ type : { "mp4", "mp3" }, output : Outputs, resolution : { 720, 1080 } ]
    /\ yt \in [ title : Titles, streams : Streams(SmallUniverse) ]
    /\ fault \in Faults
    /\ dirState \in { "absent", "dir", "file" }
    /\ Started
    /\ NoPureCall

\* a run of main where nothing fails, over every stream list
InitSelect ==
    /\ pc = "main_construct"
    /\ \/ /\ args \in [ type : { "mp4" }, output : { << "s" >> }, resolution : Resolutions ]
          /\ yt \in [ title : { << "s" >> }, streams : Streams(VideoUniverse) ]
       \/ /\ args \in [ type : { "mp3" }, output : { << "s" >> }, resolution : { 720 } ]
          /\ yt \in [ title : { << "s" >> }, streams : Streams(AudioUniverse) ]
    /\ fault = "none"
    /\ dirState = "absent"
    /\ Started
    /\ NoPureCall

InitSanitize ==
    /\ pc = "sanitize"
    /\ sx \in SeqsUpTo(Alphabet, MaxLen)
    /\ sy = << >> /\ sz = << >>
    /\ infoIn = [ fault |-> "none", description |-> << >>, fields |-> SomeFields ]
    /\ infoOut = [ raised |-> FALSE, value |-> EmptyRecord ]
    /\ NoCliRun

InitInfo ==
    /\ pc = "info"
    /\ infoIn \in [ fault : InfoFaults, description : Descriptions, fields : { SomeFields } ]
    /\ infoOut = [ raised |-> FALSE, value |-> EmptyRecord ]
    /\ sx = << >> /\ sy = << >> /\ sz = << >>
    /\ NoCliRun

Next ==
    \/ Main_Construct
    \/ Main_Dispatch
    \/ Main_Print
    \/ Main_Except
    \/ Mp4_Begin
    \/ Mp4_Select
    \/ Mp4_Transfer
    \/ Mp4_Normalize
    \/ Mp3_Begin
    \/ Mp3_Select
    \/ Mp3_Tempfile
    \/ Mp3_Transfer
    \/ Mp3_Convert

NextSanitize == Sanitize_Call \/ Sanitize_Again

NextInfo == Info_Call \/ Info_Continue

Spec == Init /\ [][Next]_vars

SpecSelect == InitSelect /\ [][Next]_vars

SpecSanitize == InitSanitize /\ [][NextSanitize]_vars

SpecInfo == InitInfo /\ [][NextInfo]_vars

-----------------------------------------------------------------------------
(* Properties.                                                              *)

\* the called download function has returned or raised
Finished == pc \in { "main_print", "main_except", "exited" } /\ calls.mp4 + calls.mp3 > 0

Mp3OutputPath == path_join(OutputDir, filename \o MP3_SUFFIX)

\* C1: once download_mp3 has created its temporary file, the file is no longer
\* on disk when download_mp3 returns or raises, whichever way it ends.
C1_TempFileRemoved ==
    (Finished /\ temp_path # None) => ~ exists(fs, temp_path)

\* C2 as stated: main prints 'Error: <message>' and exits 1 exactly when the
\* constructor or the download raised, prints the path and ends with status 0
\* otherwise, and in every run exactly one entry point, the one --type names,
\* is called once.
C2_Original ==
    pc = "exited" =>
        /\ errors # << >> => stdout = << << "Error: " >> \o errors[1] >> /\ exitCode = 1
        /\ errors = << >> =>
              ret # None /\ stdout = << << "Download completed: " >> \o ret >> /\ exitCode = 0
        /\ calls = [ mp4 |-> IF args.type = "mp4" THEN 1 ELSE 0,
                     mp3 |-> IF args.type = "mp3" THEN 1 ELSE 0 ]

\* C2 amended: as above, but the entry point --type names is called once only
\* when the constructor succeeded; when the constructor raised, none is called.
C2_MainOutcome ==
    pc = "exited" =>
        /\ errors # << >> => stdout = << << "Error: " >> \o errors[1] >> /\ exitCode = 1
        /\ errors = << >> =>
              ret # None /\ stdout = << << "Download completed: " >> \o ret >> /\ exitCode = 0
        /\ ctor = "ok" =>
              calls = [ mp4 |-> IF args.type = "mp4" THEN 1 ELSE 0,
                        mp3 |-> IF args.type = "mp3" THEN 1 ELSE 0 ]
        /\ ctor = "raised" => calls = [ mp4 |-> 0, mp3 |-> 0 ] /\ errors # << >>

C2_Witness ==
    /\ pc = "exited" /\ exitCode = 1 /\ args.type = "mp3" /\ calls.mp3 = 1
    /\ stdout = << << "Error: ", "Failed to download audio: " >> \o ExcTransfer >>

\* C3: when the transcoder raises while or after writing <outputDir>/<stem>.mp3,
\* no file is left at that path once download_mp3 has raised.
C3_NoPartialOutput ==
    (Finished /\ calls.mp3 = 1 /\ cause = ExcWrite) => ~ exists(fs, Mp3OutputPath)

\* C4: the stream download_mp4 transfers is the first that exists of: a
\* progressive mp4 stream of the requested resolution; an adaptive video-only
\* mp4 stream of that resolution; the highest-resolution progressive mp4
\* stream; the provider's highest-resolution stream of any container.
C4_PreferenceOrder ==
    (args.type = "mp4" /\ steps.transfer = 1 /\ fault = "none") =>
        LET S == yt.streams
            req == args.resolution
            all == 1..Len(S)
            exactProg == { i \in all : S[i].is_progressive /\ S[i].subtype = "mp4"
                                       /\ S[i].resolution = req }
            exactAdap == { i \in all : ~ S[i].is_progressive /\ S[i].type = "video"
                                       /\ S[i].subtype = "mp4" /\ S[i].resolution = req }
            anyProgMp4 == { i \in all : S[i].is_progressive /\ S[i].subtype = "mp4"
                                        /\ S[i].resolution # 0 }
            anyProg == { i \in all : S[i].is_progressive /\ S[i].resolution # 0 }
            Highest(T, k) == k \in T /\ \A j \in T : S[j].resolution <= S[k].resolution
            k == video_stream.itag
        IN  /\ k \in all /\ video_stream = S[k]
            /\ \A e \in fs : e[2] \in { << "bytes", k >> }
            /\ IF exactProg # {} THEN k \in exactProg
               ELSE IF exactAdap # {} THEN k \in exactAdap
               ELSE IF anyProgMp4 # {} THEN Highest(anyProgMp4, k)
               ELSE Highest(anyProg, k)

C4_Witness ==
    /\ pc = "mp4_normalize" /\ args.resolution = 1080
    /\ video_stream.is_progressive /\ video_stream.subtype = "mp4"
    /\ video_stream.resolution = 720
    /\ \E i \in 1..Len(yt.streams) :
          yt.streams[i].subtype = "webm" /\ yt.streams[i].resolution = 720
    /\ exists(fs, file_path)

\* C5: _get_audio_stream returns the audio-only mp4 stream of highest bitrate,
\* and nothing when there is no audio-only mp4 stream; then download_mp3
\* raises, having transferred, created, transcoded and written nothing.
C5_AudioSelection ==
    (args.type = "mp3" /\ steps.select = 1 /\ fault = "none") =>
        LET S == yt.streams
            all == 1..Len(S)
            audioMp4 == { i \in all : ~ S[i].is_progressive /\ S[i].type = "audio"
                                      /\ S[i].subtype = "mp4" }
            rated == { i \in audioMp4 : S[i].abr # 0 }
            k == audio_stream.itag
        IN  /\ rated # {} =>
                  k \in rated /\ audio_stream = S[k] /\ \A j \in rated : S[j].abr <= S[k].abr
            /\ audioMp4 = {} => audio_stream = NoStream
            /\ audio_stream = NoStream =>
                  /\ pc \in { "main_except", "exited" }
                  /\ errors = << audio_error(ExcNoAudio) >>
                  /\ steps.transfer = 0 /\ steps.transcode = 0
                  /\ temp_path = None /\ fs = {} /\ wlog = << >> /\ ret = None

C5_Witness ==
    /\ args.type = "mp3" /\ steps.select = 1
    /\ Len(yt.streams) = 3
    /\ yt.streams[1].abr = 96 /\ yt.streams[2].abr = 160 /\ yt.streams[3].abr = 128
    /\ \A i \in 1..3 : yt.streams[i].type = "audio" /\ yt.streams[i].subtype = "mp4"
    /\ audio_stream = yt.streams[2]

\* C6: a path download_mp4 returns ends with .mp4 and names a file holding the
\* transferred bytes; a transfer path without .mp4 was renamed to itself plus
\* .mp4 and no file is left at it; a transfer path with .mp4 is returned as is.
C6_OutputNormalized ==
    (args.type = "mp4" /\ ret # None) =>
        /\ endswith(ret, MP4_SUFFIX)
        /\ exists(fs, ret)
        /\ read(fs, ret) = << "bytes", video_stream.itag >>
        /\ ~ endswith(file_path, MP4_SUFFIX) =>
              /\ ret = file_path \o MP4_SUFFIX
              /\ ~ exists(fs, file_path)
              /\ steps.rename = 1
        /\ endswith(file_path, MP4_SUFFIX) => ret = file_path /\ steps.rename = 0

C6_Witness ==
    /\ pc = "main_print" /\ args.type = "mp4" /\ ret # None
    /\ ~ endswith(file_path, MP4_SUFFIX)
    /\ endswith(file_path, WEBM_SUFFIX)

\* C7: every failure under download_mp4 or download_mp3 reaches the caller as
\* exactly one error, 'Failed to download video: ' or 'Failed to download
\* audio: ' followed by the message of the underlying failure; no step is
\* started twice and no path is returned after a failure.
C7_ErrorsCarryCause ==
    Finished =>
        /\ cause # None =>
              /\ errors = << (IF args.type = "mp4" THEN << "Failed to download video: " >>
                              ELSE << "Failed to download audio: " >>) \o cause >>
              /\ ret = None
        /\ cause = None => errors = << >>
        /\ \A s \in DOMAIN steps : steps[s] <= 1

\* C8: _sanitize_filename(x) holds none of the nine characters, is the
\* substitution of x with its leading and trailing whitespace removed, and
\* applying _sanitize_filename to it changes nothing.
C8_Sanitized ==
    LET bad == { invalid_chars[k] : k \in 1..Len(invalid_chars) }
        subst == [ i \in 1..Len(sx) |-> IF sx[i] \in bad THEN "_" ELSE sx[i] ]
    IN  /\ pc \in { "sanitize_again", "sanitized" } =>
              /\ \A i \in 1..Len(sy) : sy[i] \notin bad
              /\ \E lo \in 1..(Len(sx) + 1), hi \in 0..Len(sx) :
                    /\ sy = SubSeq(subst, lo, hi)
                    /\ \A i \in 1..(lo - 1) : subst[i] \in Whitespace
                    /\ \A i \in (hi + 1)..Len(sx) : subst[i] \in Whitespace
              /\ sy # << >> => sy[1] \notin Whitespace /\ sy[Len(sy)] \notin Whitespace
        /\ pc = "sanitized" => sz = sy

C8_Witness ==
    /\ pc = "sanitized"
    /\ sx = << " ", "/", "\t" >>
    /\ sy = << "_" >>

\* C9: get_video_info never raises; on a failing fetch or field it returns the
\* empty record and the caller goes on; otherwise the six fields, with a
\* description of more than 200 characters cut to 200 followed by '...' and a
\* shorter one unchanged.
C9_InfoNeverRaises ==
    pc # "info" =>
        LET d == infoIn.description
            v == infoOut.value
        IN  /\ pc \in { "info_returned", "info_caller_done" }
            /\ ~ infoOut.raised
            /\ infoIn.fault # "none" => DOMAIN v = {}
            /\ infoIn.fault = "none" =>
                  /\ DOMAIN v = InfoFields
                  /\ \A k \in InfoFields \ { "description" } : v[k] = infoIn.fields[k]
                  /\ IF d # NoDescription /\ Len(d) > 200
                     THEN /\ Len(v.description) = 203
                          /\ \A i \in 1..200 : v.description[i] = d[i]
                          /\ \A i \in 201..203 : v.description[i] = 46
                     ELSE v.description = d

C9_Witness ==
    /\ pc = "info_caller_done" /\ infoIn.fault = "none"
    /\ Len(infoIn.description) = 201
    /\ infoIn.description[201] = 1201
    /\ Len(infoOut.value.description) = 203

\* C10: every transfer or MP3 write into the output directory happens after
\* the constructor has made the directory, which then exists; the constructor
\* makes an absent directory and accepts an existing one without error.
C10_DirectoryBeforeWrite ==
    /\ \A i \in 1..Len(wlog) : wlog[i].dir = "dir" /\ wlog[i].ctor = "ok"
    /\ ctor = "ok" => dirState = "dir"
    /\ ctor = "raised" => dirState = "file" \/ fault = "makedirs"
    /\ ctor # "ok" => calls = [ mp4 |-> 0, mp3 |-> 0 ] /\ fs = {}

C10_Witness ==
    /\ Len(wlog) = 1 /\ wlog[1].op = "mp3" /\ ctor = "ok" /\ dirState = "dir"
    /\ exists(fs, Mp3OutputPath)

====
